---- MODULE Spec2Model ----
(***************************************************************************)
(* A model of src/lib/config.ts: the schema introspector (unwrapSchema,    *)
(* getPrimitiveKind), the coercion of one raw value (coerceValue) and the   *)
(* build of a configuration object (createConfig), together with the part  *)
(* of the zod validator that createConfig calls.                            *)
(*                                                                         *)
(* JavaScript values are tagged records, so that values of different types *)
(* can be compared: a string is a sequence of one-character strings, a     *)
(* number is sign * mant * 10^exp in normal form, NaN or an infinity.       *)
(***************************************************************************)
EXTENDS Integers, Sequences, FiniteSets, TLC

VARIABLES
    pc,          \* position of the running call
    zod,         \* the zod build the schema comes from: "v3" or "v4"
    fieldSchema, \* coerceValue / getPrimitiveKind / unwrapSchema: the schema argument
    layers,      \* the wrapper layers fieldSchema was built from, outermost first
    leaf,        \* the innermost node fieldSchema was built from
    rawValue,    \* coerceValue: the raw value argument
    cur,         \* unwrapSchema: the argument of the innermost active call
    calls,       \* unwrapSchema: number of recursive calls made so far
    first,       \* unwrapSchema: what the first application returned
    ret,         \* unwrapSchema: the returned node
    kind,        \* getPrimitiveKind: the returned kind
    coerced,     \* coerceValue: the returned value (or the thrown error)
    shape,       \* createConfig: schema.shape, as a sequence of [key, schema]
    metadata,    \* createConfig: the mapping argument
    env,         \* createConfig: the environment snapshot argument
    idx,         \* createConfig: position of the for loop in Object.keys(shape)
    initial,     \* createConfig: the candidate object under construction
    result,      \* createConfig: how the call ended
    run,         \* createConfig: 1 during the first call, 2 during the repeated one
    prev         \* createConfig: how the first call ended

vars == << pc, zod, fieldSchema, layers, leaf, rawValue, cur, calls, first, ret, kind,
           coerced, shape, metadata, env, idx, initial, result, run, prev >>

introVars == << fieldSchema, layers, leaf, rawValue, cur, calls, first, ret, kind, coerced >>
buildVars == << shape, metadata, env, idx, initial, result, run, prev >>

-----------------------------------------------------------------------------
(* Bounds of the model *)

\* longest generated raw string
MaxRawLen == 2
\* deepest wrapper stack given to the introspector
MaxDepth == 2
\* deepest wrapper stack given to coerceValue together with the full raw pool
MaxWrap == 1
\* most fields of a schema given to createConfig
MaxFields == 2

-----------------------------------------------------------------------------
(* JavaScript values *)

Undefined == [t |-> "undefined"]
Null == [t |-> "null"]
Str(s) == [t |-> "string", s |-> s]
Bool(b) == [t |-> "boolean", b |-> b]
NaN == [t |-> "number", nan |-> TRUE]
Infinite(sign) == [t |-> "number", inf |-> sign]
TypeError == [t |-> "TypeError"]

RECURSIVE StripZeros(_, _)
StripZeros(mant, exp) ==
    IF mant = 0 THEN << 0, 0 >>
    ELSE IF mant % 10 = 0 THEN StripZeros(mant \div 10, exp + 1)
    ELSE << mant, exp >>

\* the number sign * mant * 10^exp, in normal form (mant carries no trailing zero)
Num(sign, mant, exp) ==
    LET n == StripZeros(mant, exp)
    IN  [t |-> "number", sign |-> sign, mant |-> n[1], exp |-> n[2]]

Int2Num(i) == IF i < 0 THEN Num(-1, -i, 0) ELSE Num(1, i, 0)

IsString(v) == v.t = "string"
IsBoolean(v) == v.t = "boolean"
IsNumber(v) == v.t = "number"
IsNaN(v) == IsNumber(v) /\ "nan" \in DOMAIN v
IsInfinite(v) == IsNumber(v) /\ "inf" \in DOMAIN v
IsFinite(v) == IsNumber(v) /\ "mant" \in DOMAIN v

\* !v of JavaScript
Falsy(v) ==
    \/ v \in {Undefined, Null, Bool(FALSE), Str(<< >>), NaN}
    \/ "t" \in DOMAIN v /\ IsFinite(v) /\ v.mant = 0
Truthy(v) == ~Falsy(v)

\* a || b of JavaScript
Or(a, b) == IF Truthy(a) THEN a ELSE b

\* o[f] of JavaScript: undefined for a property the object does not have, and a
\* TypeError for a property of undefined or null
Get(o, f) ==
    IF o \in {Undefined, Null} THEN TypeError
    ELSE IF f \in DOMAIN o THEN o[f]
    ELSE Undefined

-----------------------------------------------------------------------------
(* Strings *)

Upper == << "A", "B", "C", "D", "E", "F", "G", "H", "I", "J", "K", "L", "M",
            "N", "O", "P", "Q", "R", "S", "T", "U", "V", "W", "X", "Y", "Z" >>
Lower == << "a", "b", "c", "d", "e", "f", "g", "h", "i", "j", "k", "l", "m",
            "n", "o", "p", "q", "r", "s", "t", "u", "v", "w", "x", "y", "z" >>
WhiteSpace == {" ", "\t", "\n", "\r"}

LowerChar(c) ==
    IF \E i \in DOMAIN Upper : Upper[i] = c
    THEN Lower[CHOOSE i \in DOMAIN Upper : Upper[i] = c]
    ELSE c

\* String.prototype.toLowerCase
toLowerCase(s) == [i \in DOMAIN s |-> LowerChar(s[i])]

\* String.prototype.trim
trim(s) ==
    LET inner == {i \in DOMAIN s : s[i] \notin WhiteSpace}
    IN  IF inner = {} THEN << >>
        ELSE LET lo == CHOOSE i \in inner : \A j \in inner : i <= j
                 hi == CHOOSE i \in inner : \A j \in inner : i >= j
             IN  SubSeq(s, lo, hi)

-----------------------------------------------------------------------------
(* Number(string): the StringToNumber conversion z.coerce.number() applies *)

HexDigits == << "0", "1", "2", "3", "4", "5", "6", "7", "8", "9",
                "a", "b", "c", "d", "e", "f" >>

DigitValue(c) == (CHOOSE i \in DOMAIN HexDigits : HexDigits[i] = LowerChar(c)) - 1

IsDigitOf(c, radix) ==
    \E i \in 1..radix : HexDigits[i] = LowerChar(c)

AllDigits(s, radix) == \A i \in DOMAIN s : IsDigitOf(s[i], radix)

RECURSIVE DigitsValue(_, _)
DigitsValue(s, radix) ==
    IF s = << >> THEN 0
    ELSE DigitsValue(SubSeq(s, 1, Len(s) - 1), radix) * radix + DigitValue(s[Len(s)])

Positions(s, chars) == {i \in DOMAIN s : s[i] \in chars}
FirstOf(S) == CHOOSE i \in S : \A j \in S : i <= j
Tail2(s, from) == SubSeq(s, from, Len(s))

\* 0x.., 0o.., 0b..: no sign, at least one digit
NonDecimal(s) ==
    IF Len(s) >= 3 /\ s[1] = "0" /\ LowerChar(s[2]) \in {"x", "o", "b"}
    THEN LET radix == IF LowerChar(s[2]) = "x" THEN 16
                      ELSE IF LowerChar(s[2]) = "o" THEN 8 ELSE 2
             digits == Tail2(s, 3)
         IN  IF AllDigits(digits, radix)
             THEN Int2Num(DigitsValue(digits, radix))
             ELSE NaN
    ELSE NaN

\* an unsigned decimal literal: digits [. digits] [exponent] or . digits [exponent]
UnsignedDecimal(s, sign) ==
    LET es == Positions(s, {"e", "E"})
        mantissa == IF es = {} THEN s ELSE SubSeq(s, 1, FirstOf(es) - 1)
        expPart == IF es = {} THEN << >> ELSE Tail2(s, FirstOf(es) + 1)
        expSigned == expPart # << >> /\ expPart[1] \in {"+", "-"}
        expDigits == IF expSigned THEN Tail2(expPart, 2) ELSE expPart
        expOk == es = {} \/ (expDigits # << >> /\ AllDigits(expDigits, 10))
        expValue == IF es = {} THEN 0
                    ELSE IF expSigned /\ expPart[1] = "-"
                         THEN 0 - DigitsValue(expDigits, 10)
                         ELSE DigitsValue(expDigits, 10)
        dots == Positions(mantissa, {"."})
        intPart == IF dots = {} THEN mantissa ELSE SubSeq(mantissa, 1, FirstOf(dots) - 1)
        fracPart == IF dots = {} THEN << >> ELSE Tail2(mantissa, FirstOf(dots) + 1)
        mantOk == /\ AllDigits(intPart, 10)
                  /\ AllDigits(fracPart, 10)
                  /\ Len(intPart) + Len(fracPart) > 0
    IN  IF mantOk /\ expOk
        THEN Num(sign, DigitsValue(intPart \o fracPart, 10), expValue - Len(fracPart))
        ELSE NaN

InfinityLiteral == << "I", "n", "f", "i", "n", "i", "t", "y" >>

StringToNumber(s) ==
    LET str == trim(s)
    IN  IF str = << >> THEN Num(1, 0, 0)
        ELSE LET signed == str[1] \in {"+", "-"}
                 sign == IF str[1] = "-" THEN -1 ELSE 1
                 body == IF signed THEN Tail2(str, 2) ELSE str
             IN  IF body = InfinityLiteral THEN Infinite(sign)
                 ELSE IF ~signed /\ NonDecimal(str) # NaN THEN NonDecimal(str)
                 ELSE UnsignedDecimal(body, sign)

\* Number(v) for the values the model passes around
ToNumber(v) ==
    IF IsString(v) THEN StringToNumber(v.s)
    ELSE IF IsNumber(v) THEN v
    ELSE IF IsBoolean(v) THEN (IF v.b THEN Num(1, 1, 0) ELSE Num(1, 0, 0))
    ELSE IF v = Null THEN Num(1, 0, 0)
    ELSE NaN

-----------------------------------------------------------------------------
(* The schema introspector *)

\* a type tag, the string a node's _def.typeName (zod 3) or _def.type (zod 4) holds
Tag(name) == [tag |-> name]

OptionalTags == {Tag("ZodOptional"), Tag("ZodNullable"), Tag("optional"), Tag("nullable")}
DefaultTags == {Tag("ZodDefault"), Tag("default"), Tag("ZodCatch"), Tag("catch"),
                Tag("ZodReadonly"), Tag("readonly")}
EffectsTags == {Tag("ZodEffects"), Tag("effects")}
PipelineTags == {Tag("ZodPipeline"), Tag("pipeline")}
WrapperTagSet == OptionalTags \cup DefaultTags \cup EffectsTags \cup PipelineTags

\* def.typeName || def.type
TypeNameOf(def) == Or(Get(def, "typeName"), Get(def, "type"))

\* LinkOf following a pipeline into its input stage
LinkOfInputStage(typeName) ==
    IF typeName \in OptionalTags \cup DefaultTags THEN "innerType"
    ELSE IF typeName \in EffectsTags THEN "schema"
    ELSE IF typeName \in PipelineTags THEN "in"
    ELSE ""

\* the property of _def that unwrapSchema follows for a type tag, "" for a tag
\* it does not unwrap
LinkOf(typeName) ==
    IF typeName \in OptionalTags THEN "innerType"
    ELSE IF typeName \in DefaultTags THEN "innerType"
    ELSE IF typeName \in EffectsTags THEN "schema"
    ELSE IF typeName \in PipelineTags THEN "out"
    ELSE ""

\* unwrapBody recursing into the inner link without looking whether it is there
unwrapBodyUnguarded(schema) ==
    IF Falsy(schema) \/ Falsy(Get(schema, "_def")) THEN [return |-> schema]
    ELSE LET typeName == TypeNameOf(Get(schema, "_def"))
         IN  IF LinkOf(typeName) = "" THEN [return |-> schema]
             ELSE [call |-> Get(Get(schema, "_def"), LinkOf(typeName))]

\* one activation of unwrapSchema: [call |-> n] when it makes the recursive call
\* unwrapSchema(n), [return |-> n] when it returns n without recursing
unwrapBody(schema) ==
    IF Falsy(schema) \/ Falsy(Get(schema, "_def")) THEN [return |-> schema]
    ELSE LET def == Get(schema, "_def")
             typeName == TypeNameOf(def)
         IN  IF LinkOf(typeName) = "" THEN [return |-> schema]
             ELSE LET inner == Get(def, LinkOf(typeName))
                  IN  IF Truthy(inner) THEN [call |-> inner] ELSE [return |-> schema]

Recurses(schema) == "call" \in DOMAIN unwrapBody(schema)

RECURSIVE unwrapSchema(_)
unwrapSchema(schema) ==
    IF Recurses(schema) THEN unwrapSchema(unwrapBody(schema).call)
    ELSE unwrapBody(schema).return

getPrimitiveKind(schema) ==
    LET unwrapped == unwrapSchema(schema)
    IN  IF Falsy(unwrapped) \/ Falsy(Get(unwrapped, "_def")) THEN "other"
        ELSE LET typeName == TypeNameOf(Get(unwrapped, "_def"))
             IN  IF typeName \in {Tag("ZodNumber"), Tag("number")} THEN "number"
                 ELSE IF typeName \in {Tag("ZodBoolean"), Tag("boolean")} THEN "boolean"
                 ELSE IF typeName \in {Tag("ZodString"), Tag("string")} THEN "string"
                 ELSE "other"

-----------------------------------------------------------------------------
(* coerceValue *)

\* z.coerce.number().safeParse(value): the input goes through Number(); NaN is
\* rejected by both zod builds, an infinity by zod 4 only
coerceNumberParse(value, build) ==
    LET n == ToNumber(value)
    IN  IF IsNaN(n) \/ (IsInfinite(n) /\ build = "v4")
        THEN [success |-> FALSE]
        ELSE [success |-> TRUE, data |-> n]

\* coerceBoolean comparing the lowercased string without trimming it
coerceBooleanUntrimmed(value) ==
    IF ~IsString(value) THEN TypeError
    ELSE LET lower == toLowerCase(value.s)
         IN  IF lower \in {<< "t", "r", "u", "e" >>, << "1" >>, << "y", "e", "s" >>}
             THEN Bool(TRUE)
             ELSE IF lower \in {<< "f", "a", "l", "s", "e" >>, << "0" >>, << "n", "o" >>, << >>}
             THEN Bool(FALSE)
             ELSE value

\* coerceBoolean taking every string that is not a true literal for false
coerceBooleanLenient(value) ==
    IF ~IsString(value) THEN TypeError
    ELSE LET lower == trim(toLowerCase(value.s))
         IN  IF lower \in {<< "t", "r", "u", "e" >>, << "1" >>, << "y", "e", "s" >>}
             THEN Bool(TRUE)
             ELSE Bool(FALSE)

\* a value that is no string has no toLowerCase: the call throws a TypeError
coerceBoolean(value) ==
    IF ~IsString(value) THEN TypeError
    ELSE LET lower == trim(toLowerCase(value.s))
         IN  IF lower \in {<< "t", "r", "u", "e" >>, << "1" >>, << "y", "e", "s" >>}
             THEN Bool(TRUE)
             ELSE IF lower \in {<< "f", "a", "l", "s", "e" >>, << "0" >>, << "n", "o" >>, << >>}
             THEN Bool(FALSE)
             ELSE value

coerceNumber(value, build) ==
    LET parsed == coerceNumberParse(value, build)
    IN  IF parsed.success THEN parsed.data ELSE value

\* the returned value, or TypeError when the call throws
coerceValue(schema, v, build) ==
    IF v = Undefined THEN Undefined
    ELSE LET k == getPrimitiveKind(schema)
         IN  IF k = "number" THEN coerceNumber(v, build)
             ELSE IF k = "boolean" THEN coerceBoolean(v)
             ELSE v

-----------------------------------------------------------------------------
(* Schema nodes given to the introspector *)

\* the _def property that carries the type tag: typeName in zod 3, type in zod 4
TagField(build) == IF build = "v3" THEN "typeName" ELSE "type"

\* the type tag of a node kind in a zod build: ZodNumber in zod 3, number in zod 4
TagName(build, what) ==
    IF build = "v4" THEN Tag(what)
    ELSE CASE what = "number" -> Tag("ZodNumber")
           [] what = "boolean" -> Tag("ZodBoolean")
           [] what = "string" -> Tag("ZodString")
           [] what = "object" -> Tag("ZodObject")
           [] what = "optional" -> Tag("ZodOptional")
           [] what = "nullable" -> Tag("ZodNullable")
           [] what = "default" -> Tag("ZodDefault")
           [] what = "catch" -> Tag("ZodCatch")
           [] what = "readonly" -> Tag("ZodReadonly")
           [] what = "effects" -> Tag("ZodEffects")
           [] what = "pipeline" -> Tag("ZodPipeline")

WrapperKinds == {"optional", "nullable", "default", "catch", "readonly", "effects", "pipeline"}
Builds == {"v3", "v4"}

\* a node of a zod build: a primitive or composite declaration
Primitive(build, what) == [_def |-> (TagField(build) :> TagName(build, what))]

\* where a well-formed wrapper of the kind keeps the schema it wraps
ProperLink(what) ==
    IF what = "effects" THEN "schema"
    ELSE IF what = "pipeline" THEN "out"
    ELSE "innerType"

\* a property a malformed wrapper might keep it under instead
WrongLink(what) ==
    IF what = "effects" THEN "innerType"
    ELSE IF what = "pipeline" THEN "in"
    ELSE "schema"

\* a wrapper node of the layer around child; a pipeline also has an input stage
Wrap(layer, child) ==
    LET link == IF layer.proper THEN ProperLink(layer.what) ELSE WrongLink(layer.what)
        def == (TagField(layer.build) :> TagName(layer.build, layer.what)) @@ (link :> child)
    IN  [_def |-> IF layer.what = "pipeline" /\ layer.proper
                  THEN def @@ ("in" :> Primitive(layer.build, "string"))
                  ELSE def]

RECURSIVE Stack(_, _)
Stack(ls, inner) ==
    IF ls = << >> THEN inner ELSE Wrap(Head(ls), Stack(Tail(ls), inner))

RECURSIVE SeqsUpTo(_, _)
SeqsUpTo(S, n) ==
    IF n = 0 THEN {<< >>}
    ELSE LET shorter == SeqsUpTo(S, n - 1)
         IN  shorter \cup {<< x >> \o q : x \in S, q \in {r \in shorter : Len(r) = n - 1}}

Layer(build, what, proper) == [build |-> build, what |-> what, proper |-> proper]

\* every wrapper in both vocabularies, and one malformed wrapper per link
AnyLayers ==
    {Layer(b, w, TRUE) : b \in Builds, w \in WrapperKinds}
        \cup {Layer("v3", w, FALSE) : w \in {"optional", "effects", "pipeline"}}

\* a node without _def, a node whose _def has no type tag, and a node whose
\* typeName is unknown while its type reads optional
NoDef == [description |-> Tag("opaque")]
NoTag == [_def |-> [description |-> Tag("untagged")]]
TwoTags == [_def |-> [typeName |-> Tag("ZodCustom"), type |-> Tag("optional"),
                      innerType |-> Primitive("v3", "number")]]

AnyLeaves ==
    {Undefined, Null, NoDef, NoTag, TwoTags}
        \cup {Primitive(b, w) : b \in Builds, w \in {"number", "boolean", "string", "object"}}

\* number of nodes on the path unwrapSchema can follow from a node
RECURSIVE Depth(_)
Depth(node) ==
    IF node \in {Undefined, Null} \/ "_def" \notin DOMAIN node THEN 0
    ELSE LET inner == {node._def[f] : f \in DOMAIN node._def \cap {"innerType", "schema", "out"}}
         IN  IF inner = {} THEN 1
             ELSE 1 + Depth(CHOOSE n \in inner : TRUE)

-----------------------------------------------------------------------------
(* The introspector, run one activation at a time: unwrapSchema is applied to *)
(* a node, applied again to what it returned, and the node is classified.     *)

None == [t |-> "none"]

buildIdle ==
    /\ shape = << >>
    /\ metadata = << >>
    /\ env = << >>
    /\ idx = 0
    /\ initial = << >>
    /\ result = None
    /\ run = 0
    /\ prev = None

InitIntrospect ==
    /\ zod = "v3"
    /\ layers \in SeqsUpTo(AnyLayers, MaxDepth)
    /\ leaf \in AnyLeaves
    /\ fieldSchema = Stack(layers, leaf)
    /\ rawValue = Undefined
    /\ cur = fieldSchema
    /\ calls = 0
    /\ first = None
    /\ ret = None
    /\ kind = "none"
    /\ coerced = None
    /\ pc = "unwrap1"
    /\ buildIdle

Unwrapping == pc \in {"unwrap1", "unwrap2"}

\* the recursive call unwrapSchema(inner)
UnwrapCall ==
    /\ Unwrapping
    /\ Recurses(cur)
    /\ cur' = unwrapBody(cur).call
    /\ calls' = calls + 1
    /\ UNCHANGED << pc, zod, fieldSchema, layers, leaf, rawValue, first, ret, kind, coerced >>
    /\ UNCHANGED buildVars

\* the innermost activation returns, and every activation above returns the same
UnwrapReturn ==
    /\ Unwrapping
    /\ ~Recurses(cur)
    /\ ret' = unwrapBody(cur).return
    /\ first' = IF pc = "unwrap1" THEN ret' ELSE first
    /\ pc' = IF pc = "unwrap1" THEN "returned1" ELSE "returned2"
    /\ UNCHANGED << zod, fieldSchema, layers, leaf, rawValue, cur, calls, kind, coerced >>
    /\ UNCHANGED buildVars

\* unwrapSchema applied to its own result
Reapply ==
    /\ pc = "returned1"
    /\ cur' = ret
    /\ calls' = 0
    /\ pc' = "unwrap2"
    /\ UNCHANGED << zod, fieldSchema, layers, leaf, rawValue, first, ret, kind, coerced >>
    /\ UNCHANGED buildVars

Classify ==
    /\ pc = "returned2"
    /\ kind' = getPrimitiveKind(fieldSchema)
    /\ pc' = "done"
    /\ UNCHANGED << zod, fieldSchema, layers, leaf, rawValue, cur, calls, first, ret, coerced >>
    /\ UNCHANGED buildVars

NextIntrospect == UnwrapCall \/ UnwrapReturn \/ Reapply \/ Classify

SpecIntrospect == InitIntrospect /\ [][NextIntrospect]_vars

-----------------------------------------------------------------------------
(* C9 *)

\* what unwrapping a stack gives, read off the way the stack was built: the first
\* node, from the outside, that is no well-formed wrapper around a node
RECURSIVE ExpectedUnwrap(_, _)
ExpectedUnwrap(ls, inner) ==
    IF ls = << >> THEN inner
    ELSE IF Head(ls).proper /\ Stack(Tail(ls), inner) \notin {Undefined, Null}
    THEN ExpectedUnwrap(Tail(ls), inner)
    ELSE Stack(ls, inner)

WrapperTagged(node) ==
    /\ node \notin {Undefined, Null}
    /\ "_def" \in DOMAIN node
    /\ TypeNameOf(node._def) \in WrapperTagSet

LinkMissing(node) ==
    LET t == TypeNameOf(node._def).tag
        link == IF t \in {"ZodEffects", "effects"} THEN "schema"
                ELSE IF t \in {"ZodPipeline", "pipeline"} THEN "out"
                ELSE "innerType"
    IN  link \notin DOMAIN node._def \/ node._def[link] \in {Undefined, Null}

C9Safe ==
    /\ cur # TypeError /\ ret # TypeError /\ first # TypeError
    /\ calls <= Len(layers)
    /\ pc \in {"unwrap1", "returned1", "unwrap2", "returned2", "done"}
    /\ Unwrapping => Depth(cur) + calls <= Depth(fieldSchema)
    /\ pc \in {"returned1", "unwrap2", "returned2", "done"} =>
          /\ first = ExpectedUnwrap(layers, leaf)
          /\ WrapperTagged(first) => LinkMissing(first)
    /\ pc \in {"returned2", "done"} => ret = first /\ calls = 0

\* C9: unwrapSchema ends, without an error, on every finite node (null, undefined,
\* a node without _def or without a type tag and a wrapper without its inner link
\* included, the last returned as it is); every recursive call is on a node of
\* strictly smaller wrapper depth; unwrapping the result again gives the result; and
\* the result carries a wrapper tag only when its inner link is missing.
C9_UnwrapTerminatesIdempotent ==
    /\ []C9Safe
    /\ [][UnwrapCall => Depth(cur') < Depth(cur)]_vars

\* a wrapper two layers down whose inner link is missing came back unchanged, twice
C9_Witness ==
    /\ pc = "done"
    /\ Len(layers) = 2
    /\ layers[1].proper /\ ~layers[2].proper
    /\ first = Stack(Tail(layers), leaf)
    /\ ret = first

-----------------------------------------------------------------------------
(* Inputs of coerceValue *)

\* the characters raw strings are generated from
Alphabet == {"1", "0", " ", ".", "e", "-"}

NamedStrings ==
    {<< "t", "r", "u", "e" >>,
     << "T", "R", "U", "E" >>,
     << " ", "T", "r", "u", "e", " " >>,
     << "y", "e", "s" >>,
     << "Y", "E", "S" >>,
     << "Y", "e", "s", "\t" >>,
     << "f", "a", "l", "s", "e" >>,
     << "F", "A", "L", "S", "E" >>,
     << "F", "a", "l", "s", "e", " " >>,
     << "n", "o" >>,
     << "N", "o" >>,
     << "\t", "N", "O" >>,
     << "m", "a", "y", "b", "e" >>,
     << "o", "n" >>,
     << "o", "f", "f" >>,
     << "y" >>,
     << "3", "0", "0", "0" >>,
     << "3", ".", "1", "4" >>,
     << "8", "0", "8", "0" >>,
     << "-", "5" >>,
     << "+", "7" >>,
     << " ", "4", "2", " " >>,
     << "1", "e", "3" >>,
     << "0", "x", "1", "F" >>,
     << "1", "2", "a", "b", "c" >>,
     << "a", "b", "c" >>,
     << "1", ".", "2", ".", "3" >>,
     << "I", "n", "f", "i", "n", "i", "t", "y" >>,
     << "e", "x", "a", "m", "p", "l", "e", ".", "c", "o", "m" >>,
     << "l", "o", "c", "a", "l", "h", "o", "s", "t" >>}

RawStrings == SeqsUpTo(Alphabet, MaxRawLen) \cup NamedStrings

\* values that are not strings: what a caller outside the type checker can pass
NativeValues ==
    {Bool(TRUE), Bool(FALSE), Int2Num(3000), Int2Num(0), Num(1, 314, -2), Int2Num(-5), NaN}

RawValues == {Undefined} \cup {Str(r) : r \in RawStrings} \cup NativeValues

ProbeValues ==
    {Undefined, Str(<< >>), Str(<< "t", "r", "u", "e" >>), Str(<< "m", "a", "y", "b", "e" >>),
     Str(<< "3", "0", "0", "0" >>), Str(<< "3", ".", "1", "4" >>)}

\* the well-formed wrappers of one zod build
ProperLayers(build) == {Layer(build, w, TRUE) : w \in WrapperKinds}

\* a wrapper whose inner link is missing
BrokenWrapper(build) == [_def |-> (TagField(build) :> TagName(build, "optional"))]

CoerceLeaves(build) ==
    {Primitive(build, w) : w \in {"number", "boolean", "string", "object"}}
        \cup {NoTag, BrokenWrapper(build)}

InitCoerce ==
    /\ zod \in Builds
    /\ \/ /\ layers \in SeqsUpTo(ProperLayers(zod), MaxWrap)
          /\ rawValue \in RawValues
       \/ /\ layers \in SeqsUpTo(ProperLayers(zod), MaxDepth)
          /\ rawValue \in ProbeValues
    /\ leaf \in CoerceLeaves(zod)
    /\ fieldSchema = Stack(layers, leaf)
    /\ cur = None
    /\ calls = 0
    /\ first = None
    /\ ret = None
    /\ kind = "none"
    /\ coerced = None
    /\ pc = "call"
    /\ buildIdle

\* coerceValue(fieldSchema, rawValue), start to end
Coerce ==
    /\ pc = "call"
    /\ kind' = getPrimitiveKind(fieldSchema)
    /\ coerced' = coerceValue(fieldSchema, rawValue, zod)
    /\ pc' = "done"
    /\ UNCHANGED << zod, fieldSchema, layers, leaf, rawValue, cur, calls, first, ret >>
    /\ UNCHANGED buildVars

NextCoerce == Coerce

SpecCoerce == InitCoerce /\ [][NextCoerce]_vars

-----------------------------------------------------------------------------
(* Claims about coerceValue and getPrimitiveKind, under SpecCoerce *)

\* c is the letter l in either case
SameLetter(c, l) == c = l \/ \E i \in DOMAIN Lower : Lower[i] = l /\ Upper[i] = c

\* s is the literal lit in any mix of cases, with any whitespace around it
ReadsAs(s, lit) ==
    \E a \in 0..Len(s) :
        /\ a + Len(lit) <= Len(s)
        /\ \A i \in 1..a : s[i] \in WhiteSpace
        /\ \A i \in 1..Len(lit) : SameLetter(s[a + i], lit[i])
        /\ \A i \in (a + Len(lit) + 1)..Len(s) : s[i] \in WhiteSpace

TrueLiterals == {<< "t", "r", "u", "e" >>, << "1" >>, << "y", "e", "s" >>}
FalseLiterals == {<< "f", "a", "l", "s", "e" >>, << "0" >>, << "n", "o" >>, << >>}

ReadsTrue(s) == \E lit \in TrueLiterals : ReadsAs(s, lit)
ReadsFalse(s) == \E lit \in FalseLiterals : ReadsAs(s, lit)

\* the kind the innermost node of the stack declares
LeafKind ==
    IF leaf = Primitive(zod, "number") THEN "number"
    ELSE IF leaf = Primitive(zod, "boolean") THEN "boolean"
    ELSE IF leaf = Primitive(zod, "string") THEN "string"
    ELSE "other"

\* C3: for a field whose innermost declaration is boolean, under any stack of
\* wrappers, a raw string that reads true, 1 or yes (any case, whitespace around
\* it) is coerced to true, and one that reads false, 0, no or nothing to false.
C3_BooleanLiterals ==
    (pc = "done" /\ LeafKind = "boolean" /\ IsString(rawValue)) =>
        /\ ReadsTrue(rawValue.s) => coerced = Bool(TRUE)
        /\ ReadsFalse(rawValue.s) => coerced = Bool(FALSE)

\* " True " behind a wrapper became true
C3_Witness ==
    /\ pc = "done"
    /\ LeafKind = "boolean"
    /\ layers # << >>
    /\ rawValue = Str(<< " ", "T", "r", "u", "e", " " >>)
    /\ coerced = Bool(TRUE)

\* s is written as a number: whitespace, a sign, digits with or without a
\* fraction and an exponent, a prefixed hexadecimal, octal or binary integer, or
\* Infinity. The empty and the whitespace-only string are not.
NumericLiteral(s) ==
    /\ \E i \in DOMAIN s : s[i] \notin WhiteSpace
    /\ ~IsNaN(StringToNumber(s))

\* C4 as claimed: for a number field every raw string that is a numeric literal
\* is coerced to the number it denotes, and every other raw string, the empty and
\* the whitespace-only ones included, is returned unchanged, still a string.
C4_NumberOrUnchanged ==
    (pc = "done" /\ LeafKind = "number" /\ IsString(rawValue)) =>
        IF NumericLiteral(rawValue.s)
        THEN IsNumber(coerced)
        ELSE coerced = rawValue

\* C7 as claimed: a raw value that already has the field's native type is
\* returned as it is, and the call does not fail.
C7_NativeRoundTrip ==
    (pc = "done" /\ rawValue \in NativeValues /\ rawValue.t = LeafKind) =>
        coerced = rawValue

\* C10: the kind is the kind of the innermost node, whatever optional, nullable,
\* default, catch, readonly, effects and pipeline layers are around it (other
\* when that node is untagged, composite or a wrapper without inner link), and
\* for a field of kind string or other every raw string is returned unchanged.
C10_KindThroughWrappers ==
    pc = "done" =>
        /\ kind = LeafKind
        /\ (kind \in {"string", "other"} /\ IsString(rawValue)) => coerced = rawValue

\* a number seen through a pipeline around an effects wrapper
C10_Witness ==
    /\ pc = "done"
    /\ Len(layers) >= 2
    /\ layers[1].what = "pipeline"
    /\ layers[2].what = "effects"
    /\ kind = "number"
    /\ coerced = Int2Num(3000)

-----------------------------------------------------------------------------
(* The validator: what schema.parse does with the candidate object, for the   *)
(* declarations createConfig is given here (number, string and boolean with    *)
(* their checks, behind optional, nullable, default, catch and readonly)       *)

Ok(v) == [ok |-> TRUE, value |-> v]
Fail(codes) == [ok |-> FALSE, issues |-> codes]

ChecksOf(def) == IF "checks" \in DOMAIN def THEN def.checks ELSE {}

Positive(n) == IF IsInfinite(n) THEN n.inf > 0 ELSE n.sign > 0 /\ n.mant > 0
Integral(n) == IsFinite(n) /\ n.exp >= 0

\* the issues the checks of a number declaration raise on a number
NumberIssues(def, n) ==
    (IF "int" \in ChecksOf(def) /\ ~Integral(n) THEN {"invalid_type"} ELSE {})
        \cup (IF "positive" \in ChecksOf(def) /\ ~Positive(n) THEN {"too_small"} ELSE {})

\* the issues the checks of a string declaration raise on a string
StringIssues(def, str) ==
    IF "min1" \in ChecksOf(def) /\ Len(str) < 1 THEN {"too_small"} ELSE {}

RECURSIVE ParseField(_, _, _)
ParseField(schema, input, build) ==
    LET def == schema._def
        typeName == TypeNameOf(def)
    IN  CASE typeName = TagName(build, "number") ->
                IF ~IsNumber(input) \/ IsNaN(input) \/ (IsInfinite(input) /\ build = "v4")
                THEN Fail({"invalid_type"})
                ELSE IF NumberIssues(def, input) = {} THEN Ok(input)
                ELSE Fail(NumberIssues(def, input))
          [] typeName = TagName(build, "string") ->
                IF ~IsString(input) THEN Fail({"invalid_type"})
                ELSE IF StringIssues(def, input.s) = {} THEN Ok(input)
                ELSE Fail(StringIssues(def, input.s))
          [] typeName = TagName(build, "boolean") ->
                IF IsBoolean(input) THEN Ok(input) ELSE Fail({"invalid_type"})
          [] typeName = TagName(build, "optional") ->
                IF input = Undefined THEN Ok(Undefined)
                ELSE ParseField(def.innerType, input, build)
          [] typeName = TagName(build, "nullable") ->
                IF input = Null THEN Ok(Null)
                ELSE ParseField(def.innerType, input, build)
          [] typeName = TagName(build, "default") ->
                IF input # Undefined THEN ParseField(def.innerType, input, build)
                ELSE IF build = "v4" THEN Ok(def.defaultValue)
                ELSE ParseField(def.innerType, def.defaultValue, build)
          [] typeName = TagName(build, "catch") ->
                LET inner == ParseField(def.innerType, input, build)
                IN  IF inner.ok THEN inner ELSE Ok(def.catchValue)
          [] typeName = TagName(build, "readonly") ->
                ParseField(def.innerType, input, build)

\* schema.parse(candidate) of an object schema: the validated object, or the
\* ZodError carrying one issue per failed check, each with the field as its path
parse(fields, candidate, build) ==
    LET outcome(i) == ParseField(fields[i].schema, Get(candidate, fields[i].key), build)
        failed == {i \in DOMAIN fields : ~outcome(i).ok}
        present == {i \in DOMAIN fields : outcome(i).value # Undefined}
        at(key) == CHOOSE i \in DOMAIN fields : fields[i].key = key
    IN  IF failed = {}
        THEN [t |-> "return",
              value |-> [key \in {fields[i].key : i \in present} |-> outcome(at(key)).value]]
        ELSE [t |-> "throw", name |-> "ZodError",
              issues |-> UNION {{[path |-> fields[i].key, code |-> c] : c \in outcome(i).issues} :
                                  i \in failed}]

-----------------------------------------------------------------------------
(* Inputs of createConfig *)

WithChecks(node, checks) == [_def |-> node._def @@ ("checks" :> checks)]
Optional(build, inner) == Wrap(Layer(build, "optional", TRUE), inner)
Default(build, inner, v) ==
    [_def |-> Wrap(Layer(build, "default", TRUE), inner)._def @@ ("defaultValue" :> v)]
Catch(build, inner, v) ==
    [_def |-> Wrap(Layer(build, "catch", TRUE), inner)._def @@ ("catchValue" :> v)]

localhost == << "l", "o", "c", "a", "l", "h", "o", "s", "t" >>

\* the fields of the example schemas, with the environment variable each is
\* mapped to, a boolean field with a fallback value and a bare boolean field
FieldPool(build) ==
    << [key |-> "port", var |-> "APP_PORT",
        schema |-> WithChecks(Primitive(build, "number"), {"int", "positive"})],
       [key |-> "host", var |-> "APP_HOST",
        schema |-> Default(build, Primitive(build, "string"), Str(localhost))],
       [key |-> "debug", var |-> "APP_DEBUG",
        schema |-> Default(build, Primitive(build, "boolean"), Bool(FALSE))],
       [key |-> "apiKey", var |-> "API_KEY",
        schema |-> WithChecks(Primitive(build, "string"), {"min1"})],
       [key |-> "timeout", var |-> "REQUEST_TIMEOUT",
        schema |-> Optional(build, Primitive(build, "number"))],
       [key |-> "verbose", var |-> "VERBOSE",
        schema |-> Catch(build, Primitive(build, "boolean"), Bool(FALSE))],
       [key |-> "strict", var |-> "STRICT",
        schema |-> Primitive(build, "boolean")] >>

PoolSize == Len(FieldPool("v3"))

\* the fields of a set of pool positions, in pool order
RECURSIVE Pick(_, _, _)
Pick(pool, chosen, from) ==
    IF from > Len(pool) THEN << >>
    ELSE IF from \in chosen THEN << pool[from] >> \o Pick(pool, chosen, from + 1)
    ELSE Pick(pool, chosen, from + 1)

Shapes(build) ==
    {Pick(FieldPool(build), chosen, 1) :
        chosen \in {c \in SUBSET (1..PoolSize) : Cardinality(c) <= MaxFields}}

\* "1" reads as the number 1 and as the boolean true, "" as 0 and as false
EnvStrings == {<< "1" >>, << "m", "a", "y", "b", "e" >>, << >>}

KeysOf(fields) == {fields[i].key : i \in DOMAIN fields}
VarsOf(fields) == {fields[i].var : i \in DOMAIN fields}
FieldOf(fields, key) == fields[CHOOSE i \in DOMAIN fields : fields[i].key = key]

\* partial functions from D to R
Partial(D, R) == UNION {[d -> R] : d \in SUBSET D}

\* a mapping gives a field its variable, the empty name, or no entry
Mappings(fields) ==
    {m \in Partial(KeysOf(fields), VarsOf(fields) \cup {""}) :
        \A k \in DOMAIN m : m[k] \in {"", FieldOf(fields, k).var}}

\* a snapshot gives each variable a string or leaves it unset; it may hold a
\* string under the empty name
Snapshots(fields) ==
    {e \in Partial(VarsOf(fields) \cup {""}, {Str(r) : r \in EnvStrings}) :
        "" \in DOMAIN e => e[""] = Str(<< "1" >>)}

-----------------------------------------------------------------------------
(* createConfig *)

introIdle ==
    /\ fieldSchema = None
    /\ layers = << >>
    /\ leaf = None
    /\ rawValue = None
    /\ cur = None
    /\ calls = 0
    /\ first = None
    /\ ret = None
    /\ kind = "none"
    /\ coerced = None

\* a candidate object that outlives the call
KeptCandidate(old) == old

\* const initial = {}
NewCandidate(old) == << >>

\* metadata[key], the empty string when the mapping has no entry (both are falsy)
EnvVarName(mapping, key) == IF key \in DOMAIN mapping THEN mapping[key] ELSE ""

\* the loop reading the environment for unmapped fields too
SkippedNever(mapping, key) == FALSE

\* if (!envVarName) continue
Skipped(mapping, key) == EnvVarName(mapping, key) = ""

\* env[envVarName]
RawValueOf(snapshot, name) == IF name \in DOMAIN snapshot THEN snapshot[name] ELSE Undefined

\* the assignment made whatever the coerced value is
AssignAlways(candidate, key, v) ==
    [k \in DOMAIN candidate \cup {key} |-> IF k = key THEN v ELSE candidate[k]]

\* if (coerced !== undefined) initial[key] = coerced
Assign(candidate, key, v) ==
    IF v # Undefined
    THEN [k \in DOMAIN candidate \cup {key} |-> IF k = key THEN v ELSE candidate[k]]
    ELSE candidate

\* one iteration of the for loop: the candidate after it, or the error it throws
LoopBody(candidate, field, mapping, snapshot, build) ==
    IF Skipped(mapping, field.key) THEN candidate
    ELSE IF Falsy(field.schema) THEN candidate
    ELSE LET v == coerceValue(field.schema, RawValueOf(snapshot, EnvVarName(mapping, field.key)), build)
         IN  IF v = TypeError THEN TypeError
             ELSE Assign(candidate, field.key, v)

\* the validator's error replaced by an error of createConfig's own
ReturnWrapped(outcome) ==
    IF outcome.t = "throw" THEN [t |-> "throw", name |-> "ConfigError", issues |-> {}]
    ELSE outcome

\* return schema.parse(initial)
Return(outcome) == outcome

InitBuild ==
    /\ zod \in Builds
    /\ shape \in Shapes(zod)
    /\ metadata \in Mappings(shape)
    /\ env \in Snapshots(shape)
    /\ initial = NewCandidate(<< >>)
    /\ idx = 1
    /\ result = None
    /\ run = 1
    /\ prev = None
    /\ pc = "loop"
    /\ introIdle

\* for (const key of Object.keys(shape)) { ... }, one key
Iterate ==
    /\ pc = "loop"
    /\ idx <= Len(shape)
    /\ LET next == LoopBody(initial, shape[idx], metadata, env, zod)
       IN  IF next = TypeError
           THEN /\ result' = [t |-> "throw", name |-> "TypeError"]
                /\ pc' = "done"
                /\ UNCHANGED << initial, idx >>
           ELSE /\ initial' = next
                /\ idx' = idx + 1
                /\ UNCHANGED << pc, result >>
    /\ UNCHANGED << zod, shape, metadata, env, run, prev >>
    /\ UNCHANGED introVars

\* return schema.parse(initial)
Validate ==
    /\ pc = "loop"
    /\ idx > Len(shape)
    /\ result' = Return(parse(shape, initial, zod))
    /\ pc' = "done"
    /\ UNCHANGED << zod, shape, metadata, env, idx, initial, run, prev >>
    /\ UNCHANGED introVars

\* the caller invokes createConfig again with the same three arguments
CallAgain ==
    /\ pc = "done"
    /\ run = 1
    /\ prev' = result
    /\ run' = 2
    /\ initial' = NewCandidate(initial)
    /\ idx' = 1
    /\ result' = None
    /\ pc' = "loop"
    /\ UNCHANGED << zod, shape, metadata, env >>
    /\ UNCHANGED introVars

NextBuild == Iterate \/ Validate \/ CallAgain

SpecBuild == InitBuild /\ [][NextBuild]_vars

\* the three specifications share the variables and differ in what is called
Init == InitIntrospect \/ InitCoerce \/ InitBuild
Next == NextIntrospect \/ NextCoerce \/ NextBuild
Spec == Init /\ [][Next]_vars

-----------------------------------------------------------------------------
(* Claims about createConfig, under SpecBuild *)

\* the fields whose loop iteration is over
Processed == IF pc = "done" THEN DOMAIN shape ELSE 1..(idx - 1)

Returned == pc = "done" /\ result.t = "return"
Threw == pc = "done" /\ result.t = "throw"
IssueAt(key, code) == [path |-> key, code |-> code] \in result.issues

Unmapped(f) == f.key \notin DOMAIN metadata
MappedTo(f, v) == f.key \in DOMAIN metadata /\ metadata[f.key] = v

OuterTag(f) == TypeNameOf(f.schema._def)
HasDefault(f) == OuterTag(f) = TagName(zod, "default")
Required(f) == OuterTag(f) \in {TagName(zod, w) : w \in {"number", "string", "boolean"}}

\* C1: a declared field without mapping entry never gets a key in the candidate,
\* whatever the environment holds; a returned configuration has the declared
\* default there; and the call fails, with an issue at that field, when the field
\* is required and has no default.
C1_UnmappedFieldUsesDefault ==
    \A i \in DOMAIN shape :
        Unmapped(shape[i]) =>
            /\ shape[i].key \notin DOMAIN initial
            /\ (Returned /\ HasDefault(shape[i])) =>
                  /\ shape[i].key \in DOMAIN result.value
                  /\ result.value[shape[i].key] = shape[i].schema._def.defaultValue
            /\ (pc = "done" /\ Required(shape[i])) =>
                  /\ Threw
                  /\ IssueAt(shape[i].key, "invalid_type")

\* port is mapped and set to "1", host is not mapped although APP_HOST is set:
\* the result is {port: 1, host: "localhost"}
C1_Witness ==
    /\ Returned
    /\ KeysOf(shape) = {"port", "host"}
    /\ DOMAIN metadata = {"port"}
    /\ "APP_HOST" \in DOMAIN env
    /\ DOMAIN initial = {"port"}
    /\ result.value = [k \in {"port", "host"} |->
                          IF k = "port" THEN Int2Num(1) ELSE Str(localhost)]

\* the candidate entry of a processed field mapped to v is there exactly when the
\* snapshot holds a string for v, and is then the coerced string
EntryFollowsEnv(f, v) ==
    /\ f.key \in DOMAIN initial <=> v \in DOMAIN env
    /\ f.key \in DOMAIN initial =>
          /\ initial[f.key] # Undefined
          /\ initial[f.key] = coerceValue(f.schema, env[v], zod)

\* C2 as claimed: for every declared field with a mapping entry naming a
\* variable v, the candidate has a key for the field exactly when env holds a
\* string for v, and the key then holds the coerced string.
C2_MappedFieldFollowsEnv ==
    \A i \in Processed : \A v \in VarsOf(shape) \cup {""} :
        MappedTo(shape[i], v) => EntryFollowsEnv(shape[i], v)

\* C2, amended: the same for every mapping entry that names a variable by a
\* non-empty string.
C2_NamedVariableFollowsEnv ==
    \A i \in Processed : \A v \in VarsOf(shape) :
        MappedTo(shape[i], v) => EntryFollowsEnv(shape[i], v)

\* one mapped field set to the empty string has its key, another whose variable
\* is not set has none
C2_Witness ==
    /\ pc = "done"
    /\ \E i, j \in DOMAIN shape :
          /\ MappedTo(shape[i], shape[i].var)
          /\ shape[i].var \in DOMAIN env /\ env[shape[i].var] = Str(<< >>)
          /\ shape[i].key \in DOMAIN initial
          /\ MappedTo(shape[j], shape[j].var)
          /\ shape[j].var \notin DOMAIN env
          /\ shape[j].key \notin DOMAIN initial

\* the field declares a boolean, bare or behind a default or a catch wrapper
BooleanField(f) ==
    \/ f.schema = Primitive(zod, "boolean")
    \/ /\ OuterTag(f) \in {TagName(zod, "default"), TagName(zod, "catch")}
       /\ f.schema._def.innerType = Primitive(zod, "boolean")

\* the field is mapped to a set variable whose string is no boolean literal
NoLiteral(f) ==
    /\ BooleanField(f)
    /\ MappedTo(f, f.var)
    /\ f.var \in DOMAIN env
    /\ ~ReadsTrue(env[f.var].s) /\ ~ReadsFalse(env[f.var].s)

\* C5 as claimed: a boolean field whose raw string is outside the recognised
\* literals keeps that string in the candidate, and createConfig fails with the
\* type mismatch of that field.
C5_UnknownBooleanFails ==
    \A i \in DOMAIN shape :
        (pc = "done" /\ NoLiteral(shape[i])) =>
            /\ initial[shape[i].key] = env[shape[i].var]
            /\ Threw
            /\ IssueAt(shape[i].key, "invalid_type")

\* C5, amended: the string is kept in the candidate; the call fails with the
\* type mismatch of that field unless a catch wrapper stands around the boolean,
\* and then a returned configuration holds the fallback value of the wrapper.
C5_UnknownBooleanFailsUnlessCaught ==
    \A i \in DOMAIN shape :
        (pc = "done" /\ NoLiteral(shape[i])) =>
            /\ initial[shape[i].key] = env[shape[i].var]
            /\ OuterTag(shape[i]) # TagName(zod, "catch") =>
                  Threw /\ IssueAt(shape[i].key, "invalid_type")
            /\ (OuterTag(shape[i]) = TagName(zod, "catch") /\ Returned) =>
                  result.value[shape[i].key] = shape[i].schema._def.catchValue

\* DEBUG=maybe: the candidate holds "maybe" and the call fails at debug
C5_Witness ==
    /\ Threw
    /\ \E i \in DOMAIN shape :
          /\ shape[i].key = "debug"
          /\ NoLiteral(shape[i])
          /\ initial["debug"] = Str(<< "m", "a", "y", "b", "e" >>)
          /\ IssueAt("debug", "invalid_type")

\* C6: a call ends in what the validator's parse of the candidate gave and in
\* nothing else: the validated object, or the validator's error as it is; an
\* apiKey (string, at least one character, no default) whose variable is not set
\* makes the call fail with an issue whose path is apiKey.
C6_ValidatorOutcomeVerbatim ==
    pc = "done" =>
        /\ result = parse(shape, initial, zod)
        /\ result.t = "throw" => result.name = "ZodError" /\ result.issues # {}
        /\ \A i \in DOMAIN shape :
              (shape[i].key = "apiKey" /\ MappedTo(shape[i], "API_KEY") /\ "API_KEY" \notin DOMAIN env)
                  => Threw /\ IssueAt("apiKey", "invalid_type")

C6_Witness ==
    /\ Threw
    /\ KeysOf(shape) = {"apiKey"}
    /\ MappedTo(shape[1], "API_KEY")
    /\ "API_KEY" \notin DOMAIN env
    /\ result.issues = {[path |-> "apiKey", code |-> "invalid_type"]}

\* C8: a second call with the same schema, mapping and snapshot ends as the first
\* did, and starts from a candidate that holds nothing of the first call.
C8_Deterministic ==
    run = 2 =>
        /\ pc = "done" => result = prev
        /\ DOMAIN initial \subseteq {shape[i].key : i \in Processed}

\* both calls returned a configuration built from two coerced fields
C8_Witness ==
    /\ run = 2
    /\ Returned
    /\ Cardinality(DOMAIN initial) = 2
    /\ result = prev

====
